---- MODULE Spec2Model ----
(***************************************************************************)
(* Model of backends/checker.py of BOLTS: the consistency checks that      *)
(* compare the part catalog (repository -> collections -> classes) with    *)
(* the per-backend databases and the files on disk, the engine that runs   *)
(* all of them on construction, and the text renderer of one check.        *)
(*                                                                         *)
(* Python strings are TLA+ strings (Len, \o and SubSeq act on them).       *)
(* A Python dict is a sequence of entries in its iteration order.          *)
(* A value that may be None, or that is rendered with str(), is tagged:    *)
(* PyStr(s), PyBool(b) or None.                                            *)
(***************************************************************************)
EXTENDS Integers, Sequences, FiniteSets, TLC

VARIABLES repo, dbs, fs, checks, status, rendered, second

vars == <<repo, dbs, fs, checks, status, rendered, second>>

(***************************************************************************)
(* Bounds of the explored inputs.                                          *)
(***************************************************************************)
MaxColls == 2

MaxClasses == 2

MaxFiles == 2

MaxBad == 2

(***************************************************************************)
(* Python values and string helpers.                                       *)
(***************************************************************************)
None == [none |-> TRUE]

PyStr(s) == [str |-> s]

PyBool(b) == [bool |-> b]

\* str(v) of Python for the values that occur in rows
str(v) ==
  IF "bool" \in DOMAIN v THEN (IF v.bool THEN "True" ELSE "False")
  ELSE IF "none" \in DOMAIN v THEN "None"
  ELSE v.str

Max(a, b) == IF a >= b THEN a ELSE b

CharAt(s, i) == SubSeq(s, i, i)

\* c * n of Python: the one-character string c repeated n times
Repeat(c, n) ==
  LET f[k \in 0..Max(n, 0)] == IF k = 0 THEN "" ELSE f[k - 1] \o c
  IN  f[Max(n, 0)]

\* "%-*s" % (w, v): str(v), left-aligned, padded with spaces to width w
LeftAlign(w, v) == str(v) \o Repeat(" ", w - Len(str(v)))

\* sep.join(parts) of Python
StrJoin(sep, parts) ==
  LET f[k \in 0..Len(parts)] ==
        IF k = 0 THEN ""
        ELSE IF k = 1 THEN parts[1]
        ELSE f[k - 1] \o sep \o parts[k]
  IN  f[Len(parts)]

\* the concatenation of a sequence of sequences
Concat(ss) ==
  LET f[k \in 0..Len(ss)] == IF k = 0 THEN <<>> ELSE f[k - 1] \o ss[k]
  IN  f[Len(ss)]

\* s.rfind(c): the last position (from 1) of the character c in s, 0 if none
RFind(s, c) ==
  LET P == {i \in 1..Len(s) : CharAt(s, i) = c}
  IN  IF P = {} THEN 0 ELSE CHOOSE i \in P : \A j \in P : j <= i

(***************************************************************************)
(* os.path                                                                 *)
(***************************************************************************)
join2(a, b) ==
  IF Len(b) > 0 /\ CharAt(b, 1) = "/" THEN b
  ELSE IF Len(a) = 0 \/ CharAt(a, Len(a)) = "/" THEN a \o b
  ELSE a \o "/" \o b

join(a, b, c) == join2(join2(a, b), c)

basename(p) == SubSeq(p, RFind(p, "/") + 1, Len(p))

\* splitext(p)[1]: the extension from the last dot of the last component,
\* empty when that component has no dot or only leading dots
splitext_ext(p) ==
  LET sepIndex == RFind(p, "/")
      dotIndex == RFind(p, ".")
  IN  IF dotIndex > sepIndex
         /\ \E k \in (sepIndex + 1)..(dotIndex - 1) : CharAt(p, k) # "."
      THEN SubSeq(p, dotIndex, Len(p))
      ELSE ""

exists(path) == path \in DOMAIN fs

listdir(path) == fs[path]

\* list.remove(x) of Python: drops the first occurrence of x
ListRemove(files, x) ==
  LET P == {i \in 1..Len(files) : files[i] = x}
      i == CHOOSE i \in P : \A j \in P : i <= j
  IN  SubSeq(files, 1, i - 1) \o SubSeq(files, i + 1, Len(files))

ListContains(files, x) == \E i \in 1..Len(files) : files[i] = x

(***************************************************************************)
(* license.check_license: a pure predicate on (name, url).                 *)
(***************************************************************************)
KnownLicenses ==
  { <<"LGPL 2.1+", "http://www.gnu.org/licenses/lgpl-2.1">>,
    <<"MIT", "http://opensource.org/licenses/MIT">> }

check_license(name, url) == <<name, url>> \in KnownLicenses

(***************************************************************************)
(* Backend databases: dbs is the dict name -> database in iteration order, *)
(* a database's getbase is the dict class id -> base entry.                *)
(***************************************************************************)
HasDb(d, name) == \E i \in 1..Len(d) : d[i].name = name

GetDb(d, name) == (CHOOSE i \in 1..Len(d) : d[i].name = name)

getbase(d, name) == d[GetDb(d, name)].getbase

\* id in getbase
HasBase(gb, id) == \E i \in 1..Len(gb) : gb[i].id = id

\* getbase[id]
BaseOf(gb, id) == gb[CHOOSE i \in 1..Len(gb) : gb[i].id = id].base

(***************************************************************************)
(* ErrorTable and the seven checks.                                        *)
(***************************************************************************)
ErrorTable(title, description, headers) ==
  [title |-> title, description |-> description, headers |-> headers,
   rows |-> <<>>]

\* every (collection, class) of the catalog, collection by collection and
\* class by class in the order of classes_by_ids()
AllClasses(r) ==
  Concat([c \in 1..Len(r.collections) |->
            [k \in 1..Len(r.collections[c].classes) |->
               [coll |-> r.collections[c],
                cl |-> r.collections[c].classes[k]]]])

MissingBaseTable ==
  ErrorTable("Missing base geometries",
    "Some classes can not be used in one or more CAD packages, because no geometry is available.",
    <<"Class id", "Collection", "Standards", "FreeCAD", "OpenSCAD">>)

\* dbs["freecad"] and dbs["openscad"] are looked up for each class
MissingBaseTable_raises(r, d) ==
  /\ AllClasses(r) # <<>>
  /\ ~(HasDb(d, "freecad") /\ HasDb(d, "openscad"))

MissingBaseRow(coll, cl, d) ==
  << PyStr(cl.id), PyStr(coll.id), PyStr(cl.standard),
     PyBool(HasBase(getbase(d, "freecad"), cl.id)),
     PyBool(HasBase(getbase(d, "openscad"), cl.id)) >>

\* as MissingBaseTable_populate, flagging only a class that both backends lack
MissingBaseTable_populate_BothMissing(self, r, d) ==
  LET cs == AllClasses(r)
      new == Concat([k \in 1..Len(cs) |->
               LET row == MissingBaseRow(cs[k].coll, cs[k].cl, d)
               IN  IF ~(row[5].bool \/ row[4].bool) THEN <<row>> ELSE <<>>])
  IN  [self EXCEPT !.rows = @ \o new]

MissingBaseTable_populate(self, r, d) ==
  LET cs == AllClasses(r)
      new == Concat([k \in 1..Len(cs) |->
               LET row == MissingBaseRow(cs[k].coll, cs[k].cl, d)
               IN  IF ~(row[5].bool /\ row[4].bool) THEN <<row>> ELSE <<>>])
  IN  [self EXCEPT !.rows = @ \o new]

UnknownClassTable ==
  ErrorTable("Unknown classes",
    "Some classes are mentioned in base files, but never defined in blt files.",
    <<"Class id", "Database">>)

\* ErrorTable.populate: the populate of UnknownClassTable is defined inside
\* its __init__ and is never bound to the class, so the inherited one runs
ErrorTable_populate(self, r, d) == self

UnknownClassTable_populate(self, r, d) == ErrorTable_populate(self, r, d)

MissingCommonParametersTable ==
  ErrorTable("Missing common parameters",
    "Some classes have no common parameters defined.",
    <<"Class ID", "Collection", "Standards">>)

\* as MissingCommonParametersTable_populate, with one row per class
MissingCommonParametersTable_populate_AllClasses(self, r, d) ==
  LET cs == AllClasses(r)
      new == [k \in 1..Len(cs) |->
                << PyStr(cs[k].cl.id), PyStr(cs[k].coll.id),
                   PyStr(cs[k].cl.standard) >>]
  IN  [self EXCEPT !.rows = @ \o new]

MissingCommonParametersTable_populate(self, r, d) ==
  LET cs == AllClasses(r)
      new == Concat([k \in 1..Len(cs) |->
               IF Len(cs[k].cl.parameters.common) = 0
               THEN << << PyStr(cs[k].cl.id), PyStr(cs[k].coll.id),
                          PyStr(cs[k].cl.standard) >> >>
               ELSE <<>>])
  IN  [self EXCEPT !.rows = @ \o new]

MissingDrawingTable ==
  ErrorTable("Missing drawings",
    "Some classes do not have associated drawings.",
    <<"Class id", "Collection", "Standards">>)

MissingDrawingTable_raises(r, d) ==
  AllClasses(r) # <<>> /\ ~HasDb(d, "drawings")

\* as MissingDrawingTable_populate, walking the classes from the last one
MissingDrawingTable_populate_Reversed(self, r, d) ==
  LET cs == AllClasses(r)
      new == Concat([k \in 1..Len(cs) |->
               IF ~HasBase(getbase(d, "drawings"), cs[Len(cs) + 1 - k].cl.id)
               THEN << << PyStr(cs[Len(cs) + 1 - k].coll.id),
                          PyStr(cs[Len(cs) + 1 - k].cl.standard) >> >>
               ELSE <<>>])
  IN  [self EXCEPT !.rows = @ \o new]

MissingDrawingTable_populate(self, r, d) ==
  LET cs == AllClasses(r)
      new == Concat([k \in 1..Len(cs) |->
               IF ~HasBase(getbase(d, "drawings"), cs[k].cl.id)
               THEN << << PyStr(cs[k].coll.id), PyStr(cs[k].cl.standard) >> >>
               ELSE <<>>])
  IN  [self EXCEPT !.rows = @ \o new]

MissingSVGSourceTable ==
  ErrorTable("Missing svg drawings",
    "Some drawings have no svg version.",
    <<"Filename", "Class ID">>)

MissingSVGSourceTable_raises(r, d) == ~HasDb(d, "drawings")

MissingSVGSourceTable_populate(self, r, d) ==
  LET gb == getbase(d, "drawings")
      new == Concat([k \in 1..Len(gb) |->
               IF gb[k].base.svg = None
               THEN << << PyStr(gb[k].base.filename), PyStr(gb[k].id) >> >>
               ELSE <<>>])
  IN  [self EXCEPT !.rows = @ \o new]

UnsupportedLicenseTable ==
  ErrorTable("Incompatible Licenses",
    "Some collections or base geometries have unknown licenses.",
    <<"Type", "Id/Filename", "License name", "License url", "Authors">>)

\* every (backend name, class id, base entry) in iteration order
AllBases(d) ==
  Concat([i \in 1..Len(d) |->
            [k \in 1..Len(d[i].getbase) |->
               [db |-> d[i].name, id |-> d[i].getbase[k].id,
                base |-> d[i].getbase[k].base]]])

\* the rows of the bases read coll, the variable of the loop over the
\* collections, which is unbound when that loop ran zero times
UnsupportedLicenseTable_raises(r, d) ==
  /\ Len(r.collections) = 0
  /\ \E k \in 1..Len(AllBases(d)) :
        ~check_license(AllBases(d)[k].base.license_name,
                       AllBases(d)[k].base.license_url)

\* as UnsupportedLicenseTable_populate, with the authors of the first
\* collection in the rows of the bases
UnsupportedLicenseTable_populate_FirstColl(self, r, d) ==
  LET colls == r.collections
      bs == AllBases(d)
      collrows == Concat([c \in 1..Len(colls) |->
               IF ~check_license(colls[c].license_name, colls[c].license_url)
               THEN << << PyStr("Collection"), PyStr(colls[c].id),
                          PyStr(colls[c].license_name),
                          PyStr(colls[c].license_url),
                          PyStr(StrJoin(",", colls[c].authors)) >> >>
               ELSE <<>>])
      baserows == Concat([k \in 1..Len(bs) |->
               IF ~check_license(bs[k].base.license_name,
                                 bs[k].base.license_url)
               THEN << << PyStr(bs[k].db), PyStr(bs[k].id),
                          PyStr(bs[k].base.license_name),
                          PyStr(bs[k].base.license_url),
                          PyStr(StrJoin(",", colls[1].authors)) >> >>
               ELSE <<>>])
  IN  [self EXCEPT !.rows = @ \o collrows \o baserows]

UnsupportedLicenseTable_populate(self, r, d) ==
  LET colls == r.collections
      bs == AllBases(d)
      collrows == Concat([c \in 1..Len(colls) |->
               IF ~check_license(colls[c].license_name, colls[c].license_url)
               THEN << << PyStr("Collection"), PyStr(colls[c].id),
                          PyStr(colls[c].license_name),
                          PyStr(colls[c].license_url),
                          PyStr(StrJoin(",", colls[c].authors)) >> >>
               ELSE <<>>])
      baserows == Concat([k \in 1..Len(bs) |->
               IF ~check_license(bs[k].base.license_name,
                                 bs[k].base.license_url)
               THEN << << PyStr(bs[k].db), PyStr(bs[k].id),
                          PyStr(bs[k].base.license_name),
                          PyStr(bs[k].base.license_url),
                          PyStr(StrJoin(",", colls[Len(colls)].authors)) >> >>
               ELSE <<>>])
  IN  [self EXCEPT !.rows = @ \o collrows \o baserows]

UnknownFileTable ==
  ErrorTable("Stray files",
    "Some files are present in the repository, but not mentioned anywhere.",
    <<"Filename", "Path">>)

\* "remove files known from bases" of the generic backends: for each class
\* of the collection with a base in gb, its filename leaves the listing
RemoveKnownBases(files, coll, gb) ==
  LET f[k \in 0..Len(coll.classes)] ==
        IF k = 0 THEN files
        ELSE IF ~HasBase(gb, coll.classes[k].id) THEN f[k - 1]
        ELSE IF ListContains(f[k - 1], BaseOf(gb, coll.classes[k].id).filename)
             THEN ListRemove(f[k - 1], BaseOf(gb, coll.classes[k].id).filename)
             ELSE f[k - 1]
  IN  f[Len(coll.classes)]

\* as RemoveDrawing, forgetting the svg
RemoveDrawing_PngOnly(files, drawing) ==
  IF drawing.png # None /\ ListContains(files, basename(drawing.png.str))
  THEN ListRemove(files, basename(drawing.png.str))
  ELSE files

\* one drawing: the base names of its png and of its svg leave the listing
RemoveDrawing(files, drawing) ==
  LET afterpng ==
        IF drawing.png # None /\ ListContains(files, basename(drawing.png.str))
        THEN ListRemove(files, basename(drawing.png.str))
        ELSE files
  IN  IF drawing.svg # None /\ ListContains(afterpng, basename(drawing.svg.str))
      THEN ListRemove(afterpng, basename(drawing.svg.str))
      ELSE afterpng

\* "remove files known from bases" of the drawings backend
RemoveKnownDrawings(files, coll, gb) ==
  LET f[k \in 0..Len(coll.classes)] ==
        IF k = 0 THEN files
        ELSE IF ~HasBase(gb, coll.classes[k].id) THEN f[k - 1]
        ELSE RemoveDrawing(f[k - 1], BaseOf(gb, coll.classes[k].id))
  IN  f[Len(coll.classes)]

\* as StrayRows, without the test of the extension
StrayRows_NoSidecarSkip(files, path) ==
  [k \in 1..Len(files) |-> << PyStr(files[k]), PyStr(path) >>]

\* "check what is left": a row for every file left that is no .base file
StrayRows(files, path) ==
  Concat([k \in 1..Len(files) |->
            IF splitext_ext(files[k]) = ".base" THEN <<>>
            ELSE << << PyStr(files[k]), PyStr(path) >> >>])

\* the loop over the backends other than "drawings"
UnknownFileGeneric(r, d) ==
  Concat([i \in 1..Len(d) |->
    IF d[i].name = "drawings" THEN <<>>
    ELSE Concat([c \in 1..Len(r.collections) |->
           LET coll == r.collections[c]
               path == join(r.path, d[i].name, coll.id)
           IN  IF ~exists(path) THEN <<>>
               ELSE StrayRows(RemoveKnownBases(listdir(path), coll,
                                               d[i].getbase), path)])])

\* the pass over the drawings
UnknownFileDrawings(r, d) ==
  IF ~HasDb(d, "drawings") THEN <<>>
  ELSE Concat([c \in 1..Len(r.collections) |->
         LET coll == r.collections[c]
             path == join(r.path, "drawings", coll.id)
         IN  IF ~exists(path) THEN <<>>
             ELSE StrayRows(RemoveKnownDrawings(listdir(path), coll,
                                                getbase(d, "drawings")), path)])

UnknownFileTable_populate(self, r, d) ==
  [self EXCEPT !.rows = @ \o UnknownFileGeneric(r, d) \o UnknownFileDrawings(r, d)]

(***************************************************************************)
(* ErrorTable.print_table                                                  *)
(***************************************************************************)
\* the field widths: the longest of the header and the cells of the field,
\* plus 2; a row sets the widths of the fields it has
Widths(self) ==
  [i \in 1..Len(self.headers) |->
     LET w[k \in 0..Len(self.rows)] ==
           IF k = 0 THEN Len(self.headers[i])
           ELSE IF i <= Len(self.rows[k])
                THEN Max(Len(str(self.rows[k][i])), w[k - 1])
                ELSE w[k - 1]
     IN  w[Len(self.rows)] + 2]

\* zip(width, row): as many fields as the shorter of the two
RowLine(width, row) ==
  StrJoin("", [i \in 1..(IF Len(row) < Len(width) THEN Len(row) ELSE Len(width))
                 |-> LeftAlign(width[i], row[i])])

print_table(self) ==
  IF Len(self.rows) = 0 THEN ""
  ELSE LET width == Widths(self)
           res == << self.title,
                     Repeat("-", Len(self.title)) \o "\n",
                     self.description \o "\n",
                     StrJoin("", [i \in 1..Len(self.headers) |->
                                    LeftAlign(width[i], PyStr(self.headers[i]))]),
                     StrJoin("", [i \in 1..Len(width) |-> Repeat("-", width[i])]) >>
                  \o [k \in 1..Len(self.rows) |-> RowLine(width, self.rows[k])]
                  \o << "\n" >>
       IN  StrJoin("\n", res)

(***************************************************************************)
(* CheckerExporter                                                         *)
(***************************************************************************)
CheckNames ==
  {"missingbase", "unknownclass", "missingcommonparameters", "missingdrawing",
   "missingsvgsource", "unsupportedlicense", "unknownfile"}

\* self.checks as __init__ fills it, before the loop over populate
FreshChecks ==
  [n \in CheckNames |->
     CASE n = "missingbase" -> MissingBaseTable
       [] n = "unknownclass" -> UnknownClassTable
       [] n = "missingcommonparameters" -> MissingCommonParametersTable
       [] n = "missingdrawing" -> MissingDrawingTable
       [] n = "missingsvgsource" -> MissingSVGSourceTable
       [] n = "unsupportedlicense" -> UnsupportedLicenseTable
       [] n = "unknownfile" -> UnknownFileTable]

populate(n, self, r, d) ==
  CASE n = "missingbase" -> MissingBaseTable_populate(self, r, d)
    [] n = "unknownclass" -> UnknownClassTable_populate(self, r, d)
    [] n = "missingcommonparameters" ->
         MissingCommonParametersTable_populate(self, r, d)
    [] n = "missingdrawing" -> MissingDrawingTable_populate(self, r, d)
    [] n = "missingsvgsource" -> MissingSVGSourceTable_populate(self, r, d)
    [] n = "unsupportedlicense" -> UnsupportedLicenseTable_populate(self, r, d)
    [] n = "unknownfile" -> UnknownFileTable_populate(self, r, d)

\* some populate of the loop raises (KeyError of a backend that is not in
\* dbs, or the unbound coll of UnsupportedLicenseTable)
populate_raises(r, d) ==
  \/ MissingBaseTable_raises(r, d)
  \/ MissingDrawingTable_raises(r, d)
  \/ MissingSVGSourceTable_raises(r, d)
  \/ UnsupportedLicenseTable_raises(r, d)

(***************************************************************************)
(* The inputs: catalogs, database sets and directory listings.             *)
(***************************************************************************)
RepoPath == "/bolts"

CollIds == <<"nut", "washer", "screw">>

CollAuthors == << <<"Ann", "Bob">>, <<"Cy">>, <<"Di">> >>

ClassIds == <<"hexagonnut1", "pin", "washer2">>

ClassStandards == <<"DIN934", "ISO2338", "DIN125">>

GeomStems == <<"nut", "pin", "washer">>

DrawStems == <<"hexnut", "pin", "washer">>

AllBackends == <<"freecad", "openscad", "drawings">>

GoodLicense == <<"LGPL 2.1+", "http://www.gnu.org/licenses/lgpl-2.1">>

BadLicense == <<"Proprietary", "http://example.com/eula">>

ClassIdx == 1..MaxClasses

\* the members of pool at the positions of S, in the order of pool
Pick(pool, S) ==
  LET f[k \in 0..Len(pool)] ==
        IF k = 0 THEN <<>>
        ELSE IF k \in S THEN Append(f[k - 1], pool[k]) ELSE f[k - 1]
  IN  f[Len(pool)]

\* class j: empty common parameters when j is in E
MkClass(j, E) ==
  [id |-> ClassIds[j], standard |-> ClassStandards[j],
   parameters |-> [common |-> IF j \in E THEN <<>> ELSE <<"d1", "s">>]]

\* n collections; class j is in collection place[j] (0: in none); the
\* collections of badC carry a license the validator rejects
MkRepo(n, place, E, badC) ==
  [path |-> RepoPath,
   collections |->
     [c \in 1..n |->
        [id |-> CollIds[c],
         license_name |-> IF c \in badC THEN BadLicense[1] ELSE GoodLicense[1],
         license_url |-> IF c \in badC THEN BadLicense[2] ELSE GoodLicense[2],
         authors |-> CollAuthors[c],
         classes |-> Pick([j \in ClassIdx |-> MkClass(j, E)],
                          {j \in ClassIdx : place[j] = c})]]]

GeomFile(db, j) ==
  GeomStems[j] \o (IF db = "freecad" THEN ".py" ELSE ".scad")

\* the directory of the drawings of class j
DrawDir(place, j) ==
  join(RepoPath, "drawings", IF place[j] = 0 THEN "misc" ELSE CollIds[place[j]])

\* the base entry of class j in backend db
MkBase(db, j, bad, svgs, pngs, place) ==
  LET lic == IF <<db, j>> \in bad THEN BadLicense ELSE GoodLicense
  IN  IF db = "drawings"
      THEN [filename |-> DrawStems[j], license_name |-> lic[1],
            license_url |-> lic[2], classids |-> <<ClassIds[j]>>,
            png |-> IF j \in pngs
                    THEN PyStr(join2(DrawDir(place, j), DrawStems[j] \o ".png"))
                    ELSE None,
            svg |-> IF j \in svgs
                    THEN PyStr(join2(DrawDir(place, j), DrawStems[j] \o ".svg"))
                    ELSE None]
      ELSE [filename |-> GeomFile(db, j), license_name |-> lic[1],
            license_url |-> lic[2], classids |-> <<ClassIds[j]>>]

\* the backends of names; backend db has a base for the classes of P[db]
MkDbs(names, P, bad, svgs, pngs, place) ==
  [i \in 1..Len(names) |->
     [name |-> names[i],
      getbase |-> Pick([j \in ClassIdx |->
                          [id |-> ClassIds[j],
                           base |-> MkBase(names[i], j, bad, svgs, pngs, place)]],
                       P[names[i]])]]

AllPresent == [db \in {"freecad", "openscad", "drawings"} |-> ClassIdx]

\* the classes dealt round the n collections
Spread(n) == [j \in ClassIdx |-> IF n = 0 THEN 0 ELSE ((j - 1) % n) + 1]

\* the classes of A dealt round the n collections, the others in none
Place(n, A) == [j \in ClassIdx |-> IF j \in A THEN Spread(n)[j] ELSE 0]

\* the first two classes in the first collection, the others in the second
FilesPlace ==
  [j \in ClassIdx |-> IF j <= 2 \/ MaxColls < 2 THEN 1 ELSE 2]

NoFiles == [p \in {} |-> <<>>]

\* the names a directory of backend db and collection c may hold
FilePool(db, c) ==
  IF db = "drawings"
  THEN Concat([j \in ClassIdx |->
                 <<DrawStems[j] \o ".png", DrawStems[j] \o ".svg">>])
       \o <<DrawStems[1], CollIds[c] \o ".base", "README">>
  ELSE [j \in ClassIdx |-> GeomFile(db, j)]
       \o <<CollIds[c] \o ".base", "README", ".base">>

Setup(r, d, f) ==
  /\ repo = r
  /\ dbs = d
  /\ fs = f
  /\ checks = FreshChecks
  /\ status = "new"
  /\ rendered = <<>>
  /\ second = <<>>

\* catalogs against the two geometry backends
InitGeometry ==
  \E n \in 0..MaxColls : \E A \in SUBSET ClassIdx :
  \E F \in SUBSET ClassIdx : \E O \in SUBSET ClassIdx :
    Setup(MkRepo(n, Place(n, A), {}, {}),
          MkDbs(AllBackends, [AllPresent EXCEPT !["freecad"] = F, !["openscad"] = O],
                {}, ClassIdx, ClassIdx, Place(n, A)),
          NoFiles)

\* catalogs with and without common parameters and drawings
InitParameters ==
  \E n \in 0..MaxColls : \E A \in SUBSET ClassIdx :
  \E E \in SUBSET ClassIdx : \E D \in SUBSET ClassIdx :
    Setup(MkRepo(n, Place(n, A), E, {}),
          MkDbs(AllBackends, [AllPresent EXCEPT !["drawings"] = D],
                {}, ClassIdx, ClassIdx, Place(n, A)),
          NoFiles)

\* drawings with and without svg and png
InitDrawings ==
  \E D \in SUBSET ClassIdx : \E svgs \in SUBSET ClassIdx :
  \E pngs \in SUBSET ClassIdx :
    Setup(MkRepo(MaxColls, Spread(MaxColls), {}, {}),
          MkDbs(AllBackends, [AllPresent EXCEPT !["drawings"] = D],
                {}, svgs, pngs, Spread(MaxColls)),
          NoFiles)

\* collections and up to MaxBad base entries with rejected licenses
InitLicenses ==
  \E n \in 0..MaxColls : \E badC \in SUBSET (1..n) :
  \E bad \in {B \in SUBSET ({"freecad", "openscad", "drawings"} \X ClassIdx) :
                Cardinality(B) <= MaxBad} :
    Setup(MkRepo(n, Spread(n), {}, badC),
          MkDbs(AllBackends, AllPresent, bad, ClassIdx, ClassIdx, Spread(n)),
          NoFiles)

\* database sets that lack some of the backends
InitBackends ==
  \E n \in 0..MaxColls : \E S \in SUBSET (1..Len(AllBackends)) :
    Setup(MkRepo(n, Spread(n), {}, {}),
          MkDbs(Pick(AllBackends, S), AllPresent, {}, ClassIdx, ClassIdx, Spread(n)),
          NoFiles)

\* the directories of the first collection, one per backend, all with the
\* same listing of up to MaxFiles files of the pool of backend db; the other
\* collections have no directory; kind[j] tells the base in db of class j of
\* the first collection: 0 none, 1 a base (a drawing: neither png nor svg),
\* 2 png only, 3 svg only, 4 both
InitFiles ==
  \E i \in 1..Len(AllBackends) :
  \E S \in {T \in SUBSET (1..Len(FilePool(AllBackends[i], 1))) :
              Cardinality(T) <= MaxFiles} :
  \E kind \in [{j \in ClassIdx : FilesPlace[j] = 1} ->
                 IF AllBackends[i] = "drawings" THEN 0..4 ELSE 0..1] :
    LET db == AllBackends[i]
        K(j) == IF FilesPlace[j] = 1 THEN kind[j] ELSE 4
    IN  Setup(MkRepo(MaxColls, FilesPlace, {}, {}),
              MkDbs(AllBackends,
                    [AllPresent EXCEPT ![db] = {j \in ClassIdx : K(j) > 0}],
                    {}, {j \in ClassIdx : K(j) \in {3, 4}},
                    {j \in ClassIdx : K(j) \in {2, 4}}, FilesPlace),
              [p \in {join(RepoPath, AllBackends[k], CollIds[1]) :
                        k \in 1..Len(AllBackends)} |-> Pick(FilePool(db, 1), S)])

Init ==
  \/ InitGeometry
  \/ InitParameters
  \/ InitDrawings
  \/ InitLicenses
  \/ InitBackends
  \/ InitFiles

(***************************************************************************)
(* The operations.                                                         *)
(***************************************************************************)
\* CheckerExporter.__init__: the loop that populates every check; when a
\* populate raises, the construction fails and no engine exists
CheckerExporter_init ==
  /\ status = "new"
  /\ IF populate_raises(repo, dbs)
     THEN /\ status' = "raised"
          /\ checks' = checks
     ELSE /\ status' = "ready"
          /\ checks' = [n \in CheckNames |-> populate(n, checks[n], repo, dbs)]
  /\ UNCHANGED <<repo, dbs, fs, rendered, second>>

\* print_table of one check of the engine
PrintTable(n) ==
  /\ status = "ready"
  /\ rendered = <<>>
  /\ second = <<>>
  /\ rendered' = << [check |-> n, text |-> print_table(checks[n])] >>
  /\ UNCHANGED <<repo, dbs, fs, checks, status, second>>

\* a second, fresh MissingDrawingTable populated from the same inputs
SecondMissingDrawing ==
  /\ status = "ready"
  /\ rendered = <<>>
  /\ second = <<>>
  /\ second' = << MissingDrawingTable_populate(MissingDrawingTable, repo, dbs) >>
  /\ UNCHANGED <<repo, dbs, fs, checks, status, rendered>>

Next ==
  \/ CheckerExporter_init
  \/ \E n \in CheckNames : PrintTable(n)
  \/ SecondMissingDrawing

Spec == Init /\ [][Next]_vars

TypeOK ==
  /\ status \in {"new", "ready", "raised"}
  /\ DOMAIN checks = CheckNames
  /\ Len(rendered) <= 1
  /\ Len(second) <= 1

(***************************************************************************)
(* Vocabulary of the properties, stated on the state alone.                *)
(***************************************************************************)
Ready == status = "ready"

Rows(n) == checks[n].rows

\* the positions <<collection, class>> of the catalog
Positions ==
  UNION {{<<c, k>> : k \in 1..Len(repo.collections[c].classes)} :
           c \in 1..Len(repo.collections)}

CollAt(p) == repo.collections[p[1]]

ClassAt(p) == repo.collections[p[1]].classes[p[2]]

CatalogIds == {ClassAt(p).id : p \in Positions}

\* p comes before q in collection order, then class order
Before(p, q) == p[1] < q[1] \/ (p[1] = q[1] /\ p[2] < q[2])

\* the class id has a base entry in the backend called name
InBackend(name, id) ==
  \E i \in 1..Len(dbs) :
     dbs[i].name = name /\ \E k \in 1..Len(dbs[i].getbase) : dbs[i].getbase[k].id = id

\* the database set has a backend called name
InDbs(name) == \E i \in 1..Len(dbs) : dbs[i].name = name

\* the base entries <<backend position, entry position>> of the database set
Entries ==
  UNION {{<<i, k>> : k \in 1..Len(dbs[i].getbase)} : i \in 1..Len(dbs)}

EntryAt(e) == dbs[e[1]].getbase[e[2]]

CountRows(rows, row) == Cardinality({i \in 1..Len(rows) : rows[i] = row})

\* the rows of a check whose first field is the string s
RowsFor(rows, s) == {i \in 1..Len(rows) : rows[i][1] = PyStr(s)}

EndsWith(s, suffix) ==
  Len(s) >= Len(suffix) /\ SubSeq(s, Len(s) - Len(suffix) + 1, Len(s)) = suffix

\* the file name has the extension .base: it ends in .base after a stem
\* that is not made of dots only
IsSidecar(f) ==
  /\ EndsWith(f, ".base")
  /\ \E k \in 1..(Len(f) - 5) : CharAt(f, k) # "."

\* the last component of a path
LastComponent(p) ==
  LET k == CHOOSE k \in 0..Len(p) :
             /\ k = 0 \/ CharAt(p, k) = "/"
             /\ \A m \in (k + 1)..Len(p) : CharAt(p, m) # "/"
  IN  SubSeq(p, k + 1, Len(p))

\* the directory of a backend and a collection
DirOf(name, coll) == repo.path \o "/" \o name \o "/" \o coll.id

(***************************************************************************)
(* C1  MissingBase                                                         *)
(***************************************************************************)
\* C1 as stated: a class with a base entry in at least one of "freecad" and
\* "openscad" gets no row of MissingBase; only classes missing from both
\* backends are flagged.
C1_FlaggedOnlyWhenBothMissing ==
  Ready =>
    \A p \in Positions :
       (InBackend("freecad", ClassAt(p).id) \/ InBackend("openscad", ClassAt(p).id))
         => RowsFor(Rows("missingbase"), ClassAt(p).id) = {}

\* C1 amended: a class with a base entry in both "freecad" and "openscad"
\* gets no row of MissingBase, and a class missing from at least one of the
\* two gets exactly one row, which tells for each backend whether the class
\* has a base there.
C1_FlaggedWhenAnyMissing ==
  Ready =>
    \A p \in Positions :
       LET id == ClassAt(p).id
           inF == InBackend("freecad", id)
           inO == InBackend("openscad", id)
       IN  IF inF /\ inO
           THEN RowsFor(Rows("missingbase"), id) = {}
           ELSE /\ Cardinality(RowsFor(Rows("missingbase"), id)) = 1
                /\ CountRows(Rows("missingbase"),
                     << PyStr(id), PyStr(CollAt(p).id), PyStr(ClassAt(p).standard),
                        PyBool(inF), PyBool(inO) >>) = 1

\* the engine is built, one class has a base in exactly one geometry
\* backend and is flagged, another has one in both
C1_Witness ==
  /\ Ready
  /\ \E p \in Positions :
        /\ InBackend("freecad", ClassAt(p).id)
        /\ ~InBackend("openscad", ClassAt(p).id)
        /\ RowsFor(Rows("missingbase"), ClassAt(p).id) # {}
  /\ \E p \in Positions :
        /\ InBackend("freecad", ClassAt(p).id)
        /\ InBackend("openscad", ClassAt(p).id)

(***************************************************************************)
(* C2  UnknownClass                                                        *)
(***************************************************************************)
\* C2: once the engine is built, the check "unknownclass" has a row
\* (class id, backend name) for every class id that a base entry of a
\* backend names and the catalog lacks, and no row for an id of the catalog.
C2_UnknownClassRows ==
  Ready =>
    /\ \A e \in Entries :
         \A x \in 1..Len(EntryAt(e).base.classids) :
            LET cid == EntryAt(e).base.classids[x]
            IN  cid \notin CatalogIds =>
                  CountRows(Rows("unknownclass"),
                            << PyStr(cid), PyStr(dbs[e[1]].name) >>) >= 1
    /\ \A i \in 1..Len(Rows("unknownclass")) :
         Rows("unknownclass")[i][1].str \notin CatalogIds

(***************************************************************************)
(* C3  MissingCommonParameters                                             *)
(***************************************************************************)
\* C3: after one populate of a fresh MissingCommonParameters, a class with
\* an empty common parameter set has exactly one row (class id, collection
\* id, standard), a class with common parameters has none, and every row is
\* the row of a class of the catalog.
C3_MissingCommonParameters ==
  Ready =>
    /\ \A p \in Positions :
         LET row == << PyStr(ClassAt(p).id), PyStr(CollAt(p).id),
                       PyStr(ClassAt(p).standard) >>
         IN  IF Len(ClassAt(p).parameters.common) = 0
             THEN /\ Cardinality(RowsFor(Rows("missingcommonparameters"),
                                         ClassAt(p).id)) = 1
                  /\ CountRows(Rows("missingcommonparameters"), row) = 1
             ELSE RowsFor(Rows("missingcommonparameters"), ClassAt(p).id) = {}
    /\ \A i \in 1..Len(Rows("missingcommonparameters")) :
         Rows("missingcommonparameters")[i][1].str \in CatalogIds

\* the engine is built on a catalog with a class without common parameters
\* and a class with some
C3_Witness ==
  /\ Ready
  /\ \E p \in Positions : Len(ClassAt(p).parameters.common) = 0
  /\ \E p \in Positions : Len(ClassAt(p).parameters.common) > 0
  /\ Len(Rows("missingcommonparameters")) = 1

(***************************************************************************)
(* C4  UnknownFile: what is never flagged                                  *)
(***************************************************************************)
\* the file of row is the registered filename of a base entry, in the
\* backend at position b, of a class of the collection coll
IsRegisteredFilename(f, b, coll) ==
  \E k \in 1..Len(coll.classes) : \E x \in 1..Len(dbs[b].getbase) :
     /\ dbs[b].getbase[x].id = coll.classes[k].id
     /\ dbs[b].getbase[x].base.filename = f

\* the file is the base name of the png or of the svg of the drawing of a
\* class of the collection coll
IsDrawingArtifact(f, b, coll) ==
  \E k \in 1..Len(coll.classes) : \E x \in 1..Len(dbs[b].getbase) :
     /\ dbs[b].getbase[x].id = coll.classes[k].id
     /\ \/ /\ dbs[b].getbase[x].base.png # None
           /\ LastComponent(dbs[b].getbase[x].base.png.str) = f
        \/ /\ dbs[b].getbase[x].base.svg # None
           /\ LastComponent(dbs[b].getbase[x].base.svg.str) = f

\* C4 as stated: in every backend, "drawings" included, UnknownFile has no
\* row for a file with the extension .base and no row for a file named as
\* the registered filename of the base entry of a class of that collection
\* in that backend.
C4_NeverFlagsSidecarOrRegistered ==
  Ready =>
    \A i \in 1..Len(Rows("unknownfile")) :
       LET row == Rows("unknownfile")[i]
       IN  /\ ~IsSidecar(row[1].str)
           /\ \A b \in 1..Len(dbs) : \A c \in 1..Len(repo.collections) :
                 DirOf(dbs[b].name, repo.collections[c]) = row[2].str
                   => ~IsRegisteredFilename(row[1].str, b, repo.collections[c])

\* C4 amended: UnknownFile has no row for a file with the extension .base;
\* in a backend other than "drawings" it has no row for a file named as
\* the registered filename of the base entry of a class of that collection
\* in that backend; in "drawings" it has no row for a file named as the
\* base name of the png or svg path of the drawing of a class of that
\* collection.
C4_NeverFlagsSidecarOrKnown ==
  Ready =>
    \A i \in 1..Len(Rows("unknownfile")) :
       LET row == Rows("unknownfile")[i]
       IN  /\ ~IsSidecar(row[1].str)
           /\ \A b \in 1..Len(dbs) : \A c \in 1..Len(repo.collections) :
                 DirOf(dbs[b].name, repo.collections[c]) = row[2].str
                   => IF dbs[b].name = "drawings"
                      THEN ~IsDrawingArtifact(row[1].str, b, repo.collections[c])
                      ELSE ~IsRegisteredFilename(row[1].str, b, repo.collections[c])

\* the engine is built; a directory of some backend lists a .base file
\* and the known file of a class of its collection (neither is flagged),
\* while UnknownFile does flag some file
C4_Witness ==
  /\ Ready
  /\ Len(Rows("unknownfile")) > 0
  /\ \E b \in 1..Len(dbs) : \E c \in 1..Len(repo.collections) :
        LET path == DirOf(dbs[b].name, repo.collections[c])
        IN  /\ path \in DOMAIN fs
            /\ \E x, y \in 1..Len(fs[path]) :
                  /\ IsSidecar(fs[path][x])
                  /\ IF dbs[b].name = "drawings"
                     THEN IsDrawingArtifact(fs[path][y], b, repo.collections[c])
                     ELSE IsRegisteredFilename(fs[path][y], b, repo.collections[c])

(***************************************************************************)
(* C5  print_table                                                         *)
(***************************************************************************)
\* the positions of the line ends of a text
LineEnds(text) == {i \in 1..Len(text) : CharAt(text, i) = "\n"}

\* the position of the k-th line end among ends, 0 for k = 0
LineEnd(ends, k) ==
  IF k = 0 THEN 0
  ELSE CHOOSE i \in ends : Cardinality({j \in ends : j < i}) = k - 1

\* the k-th line of text, whose line ends are ends
LineOf(text, ends, k) ==
  SubSeq(text, LineEnd(ends, k - 1) + 1, LineEnd(ends, k) - 1)

\* the width of field i: its header or its longest cell, plus 2
FieldWidth(t, i) ==
  LET lens == {Len(t.headers[i])} \cup
              {Len(str(t.rows[k][i])) : k \in {k \in 1..Len(t.rows) : i <= Len(t.rows[k])}}
  IN  (CHOOSE m \in lens : \A n \in lens : n <= m) + 2

\* the columns where the fields before field i end
FieldStart(t, i) ==
  LET f[k \in 1..i] == IF k = 1 THEN 0 ELSE f[k - 1] + FieldWidth(t, k - 1)
  IN  f[i]

\* C5: print_table of a check without rows is the empty string; with rows,
\* the header line is as long as the sum of the field widths
\* (max(header, longest cell) + 2), and every row line is as long as the
\* header line, with cell i left-aligned at the column where header i is.
C5_PrintTableAligned ==
  rendered # <<>> =>
    LET t == checks[rendered[1].check]
        text == rendered[1].text
        ends == LineEnds(text)
        header == LineOf(text, ends, 6)
        total == FieldStart(t, Len(t.headers)) + FieldWidth(t, Len(t.headers))
    IN  IF Len(t.rows) = 0 THEN Len(text) = 0
        ELSE /\ Len(header) = total
             /\ \A i \in 1..Len(t.headers) :
                   SubSeq(header, FieldStart(t, i) + 1,
                          FieldStart(t, i) + Len(t.headers[i])) = t.headers[i]
             /\ \A k \in 1..Len(t.rows) :
                   LET line == LineOf(text, ends, 7 + k)
                   IN  /\ Len(line) = Len(header)
                       /\ \A i \in 1..Len(t.rows[k]) :
                             SubSeq(line, FieldStart(t, i) + 1,
                                    FieldStart(t, i) + Len(str(t.rows[k][i])))
                               = str(t.rows[k][i])

(***************************************************************************)
(* C6  rows match the headers                                              *)
(***************************************************************************)
\* C6: every row of every check has as many fields as the check has
\* headers, and a row of MissingDrawing is (class id, collection id,
\* standard) of a class without drawing, as its headers say.
C6_RowsMatchHeaders ==
  Ready =>
    /\ \A n \in CheckNames : \A i \in 1..Len(Rows(n)) :
          Len(Rows(n)[i]) = Len(checks[n].headers)
    /\ \A i \in 1..Len(Rows("missingdrawing")) :
          \E p \in Positions :
             /\ ~InBackend("drawings", ClassAt(p).id)
             /\ Rows("missingdrawing")[i] =
                  << PyStr(ClassAt(p).id), PyStr(CollAt(p).id),
                     PyStr(ClassAt(p).standard) >>

(***************************************************************************)
(* C7  construction does not raise                                         *)
(***************************************************************************)
\* C7: with "freecad", "openscad" and "drawings" in the database set, the
\* construction of the engine completes for every catalog, with zero or
\* more collections; it never raises.
C7_ConstructionNeverRaises ==
  (InDbs("freecad") /\ InDbs("openscad") /\ InDbs("drawings"))
     => status # "raised"

(***************************************************************************)
(* C8  UnsupportedLicense                                                  *)
(***************************************************************************)
Rejected(name, url) == <<name, url>> \notin KnownLicenses

RejectedColls ==
  {c \in 1..Len(repo.collections) :
     Rejected(repo.collections[c].license_name, repo.collections[c].license_url)}

RejectedEntries ==
  {e \in Entries :
     Rejected(EntryAt(e).base.license_name, EntryAt(e).base.license_url)}

CollLicenseRow(c) ==
  << PyStr("Collection"), PyStr(repo.collections[c].id),
     PyStr(repo.collections[c].license_name),
     PyStr(repo.collections[c].license_url),
     PyStr(StrJoin(",", repo.collections[c].authors)) >>

\* the row of a base entry, with the authors of the collection at position c
EntryLicenseRow(e, c) ==
  << PyStr(dbs[e[1]].name), PyStr(EntryAt(e).id),
     PyStr(EntryAt(e).base.license_name), PyStr(EntryAt(e).base.license_url),
     PyStr(StrJoin(",", repo.collections[c].authors)) >>

\* C8: on a catalog with at least one collection, UnsupportedLicense has
\* first exactly one row per collection with a rejected license, with the
\* authors of that collection, and then exactly one row per base entry with
\* a rejected license, with the authors of the last collection of the
\* repository, whichever collection the class of the entry is in.
C8_UnsupportedLicenseRows ==
  (Ready /\ Len(repo.collections) >= 1) =>
    LET rows == Rows("unsupportedlicense")
        nc == Cardinality(RejectedColls)
        last == Len(repo.collections)
    IN  /\ Len(rows) = nc + Cardinality(RejectedEntries)
        /\ \A c \in RejectedColls :
              \E i \in 1..nc :
                 {j \in 1..Len(rows) : rows[j] = CollLicenseRow(c)} = {i}
        /\ \A e \in RejectedEntries :
              \E i \in (nc + 1)..Len(rows) :
                 {j \in 1..Len(rows) : rows[j][1] = PyStr(dbs[e[1]].name)
                                        /\ rows[j][2] = PyStr(EntryAt(e).id)} = {i}
                 /\ rows[i] = EntryLicenseRow(e, last)

\* the engine is built on two or more collections, the first with a
\* rejected license, and a rejected base entry of a class of the first
\* collection is reported with the authors of the last one
C8_Witness ==
  /\ Ready
  /\ Len(repo.collections) >= 2
  /\ 1 \in RejectedColls
  /\ \E e \in RejectedEntries :
        /\ \E k \in 1..Len(repo.collections[1].classes) :
              repo.collections[1].classes[k].id = EntryAt(e).id
        /\ EntryLicenseRow(e, Len(repo.collections)) # EntryLicenseRow(e, 1)
        /\ CountRows(Rows("unsupportedlicense"),
                     EntryLicenseRow(e, Len(repo.collections))) = 1

(***************************************************************************)
(* C9  UnknownFile: the drawings                                           *)
(***************************************************************************)
\* C9: with "drawings" in the database set, a file of an existing directory
\* <repo path>/drawings/<collection id> is flagged exactly once if it has
\* not the extension .base and is neither the base name of the png nor of
\* the svg of the drawing of a class of that collection, and is not flagged
\* otherwise; only files of the listing are flagged, and a collection
\* without directory has no row.
C9_DrawingFilesFlaggedOnce ==
  (Ready /\ InDbs("drawings")) =>
    \A c \in 1..Len(repo.collections) :
       LET coll == repo.collections[c]
           path == DirOf("drawings", coll)
           b == CHOOSE b \in 1..Len(dbs) : dbs[b].name = "drawings"
           rows == Rows("unknownfile")
       IN  IF path \notin DOMAIN fs
           THEN \A i \in 1..Len(rows) : rows[i][2] # PyStr(path)
           ELSE /\ \A x \in 1..Len(fs[path]) :
                     CountRows(rows, << PyStr(fs[path][x]), PyStr(path) >>)
                       = IF ~IsSidecar(fs[path][x])
                            /\ ~IsDrawingArtifact(fs[path][x], b, coll)
                         THEN 1 ELSE 0
                /\ \A i \in 1..Len(rows) :
                     rows[i][2] = PyStr(path)
                       => \E x \in 1..Len(fs[path]) : rows[i][1] = PyStr(fs[path][x])

\* the engine is built; a directory of the drawings lists the svg of a
\* drawing of its collection, which is not flagged, and a stray file, which
\* is flagged, and the directory of another collection does not exist
C9_Witness ==
  /\ Ready
  /\ InDbs("drawings")
  /\ \E c \in 1..Len(repo.collections) :
        DirOf("drawings", repo.collections[c]) \notin DOMAIN fs
  /\ \E c \in 1..Len(repo.collections) :
        LET coll == repo.collections[c]
            path == DirOf("drawings", coll)
            b == CHOOSE b \in 1..Len(dbs) : dbs[b].name = "drawings"
        IN  /\ path \in DOMAIN fs
            /\ \E x, y \in 1..Len(fs[path]) :
                  /\ IsDrawingArtifact(fs[path][x], b, coll)
                  /\ EndsWith(fs[path][x], ".svg")
                  /\ CountRows(Rows("unknownfile"),
                               << PyStr(fs[path][x]), PyStr(path) >>) = 0
                  /\ CountRows(Rows("unknownfile"),
                               << PyStr(fs[path][y]), PyStr(path) >>) = 1

(***************************************************************************)
(* C10  MissingDrawing, run twice                                          *)
(***************************************************************************)
\* the classes of the catalog without drawing
Undrawn == {p \in Positions : ~InBackend("drawings", ClassAt(p).id)}

\* C10: a second run of MissingDrawing, on a fresh check and the same
\* inputs, has the rows of the first in the same order: one row
\* (collection id, standard) per class without base entry in "drawings",
\* in collection order and, within a collection, in class order.
C10_MissingDrawingRepeatable ==
  second # <<>> =>
    /\ second[1].rows = Rows("missingdrawing")
    /\ Len(second[1].rows) = Cardinality(Undrawn)
    /\ \A p \in Undrawn :
          second[1].rows[Cardinality({q \in Undrawn : Before(q, p)}) + 1]
            = << PyStr(CollAt(p).id), PyStr(ClassAt(p).standard) >>

\* MissingDrawing ran twice on a catalog with two or more classes without
\* drawing, whose rows differ
C10_Witness ==
  /\ second # <<>>
  /\ Len(second[1].rows) >= 2
  /\ second[1].rows[1] # second[1].rows[2]
  /\ Len(Rows("missingdrawing")) >= 2

====
